---- MODULE Spec2Model ----
(***************************************************************************)
(* Model of the authentication backend in src/index.js: the users table,   *)
(* the JWT helpers, the access guard and the route handlers /signup,       *)
(* /signin, /api/auth/google, /refresh_token, /logout, /dashboard and      *)
(* /verify.  Every `await pool.query(...)` of a handler that writes to the *)
(* table is a point where another request's handler may run, so /signup    *)
(* and /api/auth/google are split at those awaits.                         *)
(***************************************************************************)
EXTENDS Integers, FiniteSets, Sequences, TLC

\* ------------------------------------------------------------------ bounds
NumClients == 2            \* concurrent callers
MaxRequests == 3           \* requests served in one behaviour
MaxTicks == 2              \* clock advances in one behaviour

\* --------------------------------------------------------- program values
AccessTTL == 900           \* expiresIn: "15m", in seconds
RefreshTTL == 604800       \* expiresIn: "7d", in seconds

JWT_SECRET == "JWT_SECRET"
REFRESH_TOKEN_SECRET_same == JWT_SECRET
REFRESH_TOKEN_SECRET == "REFRESH_TOKEN_SECRET"

Clients == 1..NumClients
Emails == {"a@x.com", "b@x.com"}
Passwords == {"pw1", "wrong"}
SignupPasswords == {"pw1"}
SignupNames == {"Alice"}
GoogleNames == {"Alice G"}
NewNames == {"Alicia"}
GoogleIds == {"g1", "g2"}
NULL == "NULL"
Undefined == "undefined"

\* The clock advances by one second, or to one second before the expiry of an
\* access token or of a refresh token minted now.
TickSteps == {1, AccessTTL - 1, RefreshTTL - 1}

VARIABLES
    uniqueCols,   \* columns of users carrying a UNIQUE constraint (the schema is not in the repository)
    users,        \* the rows of table users
    nextId,       \* the serial that numbers inserted rows
    now,          \* the clock, in seconds
    ticks,        \* number of clock advances so far
    served,       \* number of requests received so far
    held,         \* the tokens handed out so far
    req           \* per caller: the request in flight or last answered, with its response

vars == <<uniqueCols, users, nextId, now, ticks, served, held, req>>

\* ------------------------------------------------------------- bcrypt
NoHash == [alg |-> "none", of |-> ""]
bcryptHash(password) == [alg |-> "bcrypt12", of |-> password]
\* bcrypt.compare rejects (throws) when the hash is null.
bcryptCompareThrows(password, hash) == hash = NoHash
bcryptCompare_plain(password, hash) == hash.alg = "plain" /\ hash.of = password
bcryptCompare(password, hash) == hash = bcryptHash(password)

\* ---------------------------------------------------------------- JWT
NoToken == [secret |-> "none", id |-> 0, email |-> Undefined, name |-> Undefined, iat |-> 0, exp |-> 0]

createAccessToken_noname(user, t) ==
    [secret |-> JWT_SECRET, id |-> user.id, email |-> user.email, name |-> Undefined,
     iat |-> t, exp |-> t + AccessTTL]

createAccessToken(user, t) ==
    [secret |-> JWT_SECRET, id |-> user.id, email |-> user.email, name |-> user.name,
     iat |-> t, exp |-> t + AccessTTL]

createRefreshToken_long(user, t) ==
    [secret |-> REFRESH_TOKEN_SECRET, id |-> user.id, email |-> Undefined, name |-> Undefined,
     iat |-> t, exp |-> t + RefreshTTL + AccessTTL]

createRefreshToken_short(user, t) ==
    [secret |-> REFRESH_TOKEN_SECRET, id |-> user.id, email |-> Undefined, name |-> Undefined,
     iat |-> t, exp |-> t + AccessTTL]

createRefreshToken(user, t) ==
    [secret |-> REFRESH_TOKEN_SECRET, id |-> user.id, email |-> Undefined, name |-> Undefined,
     iat |-> t, exp |-> t + RefreshTTL]

\* jwt.verify: the signature must be made with `secret` and the clock must be
\* strictly before exp.
jwtVerify_inclusive(token, secret, t) == token.secret = secret /\ t <= token.exp
jwtVerify(token, secret, t) == token.secret = secret /\ t < token.exp

\* A token signed by someone who does not hold either secret.
ForgedTokens ==
    {[secret |-> "attacker", id |-> 1, email |-> e, name |-> "Alice", iat |-> 0, exp |-> 2 * RefreshTTL] :
        e \in {"a@x.com"}}

\* ---------------------------------------------------------- users table
NoUser == [id |-> 0, name |-> Undefined, email |-> Undefined, password_hash |-> NoHash, google_id |-> NULL]

ByEmail(email) == {u \in users : u.email = email}
ByGoogleId_none(gid) == {}
ByGoogleId(gid) == {u \in users : u.google_id = gid}
ById(id) == {u \in users : u.id = id}

\* ------------------------------------------------------------- requests
Idle ==
    [kind |-> "none", pc |-> "idle", name |-> "", email |-> "", password |-> "", confirm |-> "",
     sub |-> NULL, cookie |-> NoToken, at |-> 0, user |-> NoUser,
     status |-> 0, message |-> "", body |-> NoUser, claim |-> NoToken,
     accessToken |-> NoToken, refreshToken |-> NoToken, cleared |-> FALSE,
     branch |-> ""]

\* A caller sends a request when it has none in flight.  Callers are
\* interchangeable, so a caller's first request is given to the lowest-numbered
\* caller that has sent none.
CanStart(c) ==
    /\ req[c].pc \in {"idle", "done"}
    /\ served < MaxRequests
    /\ \A d \in Clients : d < c => req[d].kind # "none"

\* res.status(s).json({message: m})
Fail(r, s, m) == [r EXCEPT !.pc = "done", !.status = s, !.message = m]

\* The two res.cookie calls and the 200 response shared by signup, signin and
\* Google sign-in.
IssueSession(r, user, m) ==
    [r EXCEPT !.pc = "done", !.status = 200, !.message = m,
              !.body = [NoUser EXCEPT !.id = user.id, !.name = user.name, !.email = user.email],
              !.accessToken = createAccessToken(user, now),
              !.refreshToken = createRefreshToken(user, now)]

TypeOK ==
    /\ uniqueCols \subseteq {"email", "google_id"}
    /\ nextId \in Nat
    /\ now \in Nat
    /\ ticks \in 0..(MaxTicks + 1)
    /\ served \in 0..(MaxRequests + 1)
    /\ \A u \in users : u.id \in 1..(nextId - 1)

Init ==
    /\ uniqueCols \in SUBSET {"email", "google_id"}
    /\ users = {}
    /\ nextId = 1
    /\ now = 0
    /\ ticks = 0
    /\ served = 0
    /\ held = {}
    /\ req = [c \in Clients |-> Idle]

\* ------------------------------------------------------------ POST /signup
\* Lines 61-66: the confirm check and the SELECT by email.  The handler then
\* awaits bcrypt.hash, so the INSERT is a later step.
SignupStart(c, name, email, password, confirm) ==
    /\ CanStart(c)
    /\ served' = served + 1
    /\ LET r == [Idle EXCEPT !.kind = "signup", !.name = name, !.email = email,
                             !.password = password, !.confirm = confirm, !.at = now]
       IN  req' = [req EXCEPT ![c] =
                IF password # confirm THEN Fail(r, 400, "Passwords do not match")
                ELSE IF ByEmail(email) # {} THEN Fail(r, 400, "Email already registered")
                ELSE [r EXCEPT !.pc = "signup_insert"]]
    /\ UNCHANGED <<uniqueCols, users, nextId, now, ticks, held>>

\* Lines 68-85: the INSERT, the two tokens and the response; a constraint
\* violation of the INSERT is caught at line 82.
SignupInsert(c) ==
    /\ req[c].pc = "signup_insert"
    /\ LET r == req[c]
           row == [id |-> nextId, name |-> r.name, email |-> r.email,
                   password_hash |-> bcryptHash(r.password), google_id |-> NULL]
       IN  IF "email" \in uniqueCols /\ ByEmail(r.email) # {}
           THEN /\ req' = [req EXCEPT ![c] = Fail(r, 500, "Server error")]
                /\ UNCHANGED <<users, nextId>>
           ELSE /\ users' = users \cup {row}
                /\ nextId' = nextId + 1
                /\ req' = [req EXCEPT ![c] =
                        IssueSession([r EXCEPT !.user = row], row, "User registered successfully")]
    /\ held' = held \cup ({req'[c].accessToken, req'[c].refreshToken} \ {NoToken})
    /\ UNCHANGED <<uniqueCols, now, ticks, served>>

\* ------------------------------------------------------------ POST /signin
\* Lines 89-110.  One SELECT; rows[0] of a result with several rows is any of
\* them.  SigninOutcomes is what the handler can answer to request r.
SigninOutcomes_nullok(r) ==
    IF ByEmail(r.email) = {}
    THEN {Fail(r, 400, "Invalid email or password")}
    ELSE {IF ~bcryptCompareThrows(r.password, user.password_hash)
             /\ ~bcryptCompare(r.password, user.password_hash)
          THEN Fail([r EXCEPT !.user = user], 400, "Invalid email or password")
          ELSE IssueSession([r EXCEPT !.user = user], user, "Login successful") :
            user \in ByEmail(r.email)}

SigninOutcomes(r) ==
    IF ByEmail(r.email) = {}
    THEN {Fail(r, 400, "Invalid email or password")}
    ELSE {IF bcryptCompareThrows(r.password, user.password_hash)
          THEN Fail([r EXCEPT !.user = user], 500, "Server error")
          ELSE IF ~bcryptCompare(r.password, user.password_hash)
          THEN Fail([r EXCEPT !.user = user], 400, "Invalid email or password")
          ELSE IssueSession([r EXCEPT !.user = user], user, "Login successful") :
            user \in ByEmail(r.email)}

SigninRequest(email, password) ==
    [Idle EXCEPT !.kind = "signin", !.email = email, !.password = password, !.at = now]

Signin(c, email, password) ==
    /\ CanStart(c)
    /\ served' = served + 1
    /\ \E o \in SigninOutcomes(SigninRequest(email, password)) : req' = [req EXCEPT ![c] = o]
    /\ held' = held \cup ({req'[c].accessToken, req'[c].refreshToken} \ {NoToken})
    /\ UNCHANGED <<uniqueCols, users, nextId, now, ticks>>

\* ----------------------------------------------------- POST /api/auth/google
\* What googleClient.verifyIdToken yields: a verified payload, or it throws.
InvalidAssertion == [sub |-> NULL, email |-> Undefined, name |-> Undefined]
Assertions ==
    {[sub |-> g, email |-> e, name |-> n] : g \in GoogleIds, e \in Emails, n \in GoogleNames}
        \cup {InvalidAssertion}

\* verifyIdToken throws for a token that is not a valid assertion for this client.
verifyIdTokenThrows_never(assertion) == FALSE
verifyIdTokenThrows(assertion) == assertion = InvalidAssertion

\* Lines 115-130 and 145-156: verifyIdToken, then the SELECT by google_id.
GoogleStart(c, assertion) ==
    /\ CanStart(c)
    /\ served' = served + 1
    /\ LET r == [Idle EXCEPT !.kind = "google", !.sub = assertion.sub, !.email = assertion.email,
                             !.name = assertion.name, !.at = now]
       IN  IF verifyIdTokenThrows(assertion)
           THEN req' = [req EXCEPT ![c] = Fail(r, 401, "Google authentication failed")]
           ELSE IF ByGoogleId(assertion.sub) = {}
           THEN req' = [req EXCEPT ![c] = [r EXCEPT !.pc = "google_email"]]
           ELSE \E user \in ByGoogleId(assertion.sub) :
                req' = [req EXCEPT ![c] =
                    IssueSession([r EXCEPT !.user = user, !.branch = "existing"], user,
                                 "Google login successful")]
    /\ held' = held \cup ({req'[c].accessToken, req'[c].refreshToken} \ {NoToken})
    /\ UNCHANGED <<uniqueCols, users, nextId, now, ticks>>

\* Lines 132-133: the SELECT by email.
GoogleEmail(c) ==
    /\ req[c].pc = "google_email"
    /\ LET r == req[c]
       IN  IF ByEmail(r.email) = {}
           THEN req' = [req EXCEPT ![c] = [r EXCEPT !.pc = "google_insert"]]
           ELSE \E user \in ByEmail(r.email) :
                req' = [req EXCEPT ![c] = [r EXCEPT !.pc = "google_link", !.user = user]]
    /\ UNCHANGED <<uniqueCols, users, nextId, now, ticks, served, held>>

\* Lines 135-136 and 150-160: the UPDATE of google_id on the row read by
\* GoogleEmail; the session is built from that row as it was read.
GoogleLink(c) ==
    /\ req[c].pc = "google_link"
    /\ LET r == req[c]
       IN  IF "google_id" \in uniqueCols /\ \E u \in ByGoogleId(r.sub) : u.id # r.user.id
           THEN /\ req' = [req EXCEPT ![c] = Fail(r, 401, "Google authentication failed")]
                /\ UNCHANGED users
           ELSE /\ users' = {IF u.id = r.user.id THEN [u EXCEPT !.google_id = r.sub] ELSE u : u \in users}
                /\ req' = [req EXCEPT ![c] =
                        IssueSession([r EXCEPT !.branch = "link"], r.user, "Google login successful")]
    /\ held' = held \cup ({req'[c].accessToken, req'[c].refreshToken} \ {NoToken})
    /\ UNCHANGED <<uniqueCols, nextId, now, ticks, served>>

\* Lines 139-143 and 150-160: the INSERT of a new row.
GoogleInsert(c) ==
    /\ req[c].pc = "google_insert"
    /\ LET r == req[c]
           row == [id |-> nextId, name |-> r.name, email |-> r.email,
                   password_hash |-> NoHash, google_id |-> r.sub]
       IN  IF \/ "email" \in uniqueCols /\ ByEmail(r.email) # {}
              \/ "google_id" \in uniqueCols /\ ByGoogleId(r.sub) # {}
           THEN /\ req' = [req EXCEPT ![c] = Fail(r, 401, "Google authentication failed")]
                /\ UNCHANGED <<users, nextId>>
           ELSE /\ users' = users \cup {row}
                /\ nextId' = nextId + 1
                /\ req' = [req EXCEPT ![c] =
                        IssueSession([r EXCEPT !.user = row, !.branch = "create"], row,
                                     "Google login successful")]
    /\ held' = held \cup ({req'[c].accessToken, req'[c].refreshToken} \ {NoToken})
    /\ UNCHANGED <<uniqueCols, now, ticks, served>>

\* ------------------------------------------------------- verifyAccessToken
\* Lines 45-55: the response of the guard, or status 0 when it calls next().
GuardMessage(token, t) ==
    IF token = NoToken THEN "Unauthorized"
    ELSE IF ~jwtVerify(token, JWT_SECRET, t) THEN "Invalid or expired token"
    ELSE ""

verifyAccessToken(r, token, t) ==
    IF GuardMessage(token, t) # "" THEN Fail(r, 401, GuardMessage(token, t))
    ELSE [r EXCEPT !.claim = token]

\* Tokens a caller can present: any token handed out so far, a forged one, or none.
Presentable == held \cup ForgedTokens \cup {NoToken}

\* ------------------------------------------------------- POST /refresh_token
\* Lines 165-180.  createAccessToken(undefined) throws when the SELECT by id
\* returns no row, and the catch at line 177 answers for it.
Refresh(c, token) ==
    /\ CanStart(c)
    /\ served' = served + 1
    /\ LET r == [Idle EXCEPT !.kind = "refresh", !.cookie = token, !.at = now]
       IN  IF token = NoToken
           THEN req' = [req EXCEPT ![c] = Fail(r, 401, "No refresh token provided")]
           ELSE IF ~jwtVerify(token, REFRESH_TOKEN_SECRET, now) \/ ById(token.id) = {}
           THEN req' = [req EXCEPT ![c] = Fail(r, 401, "Invalid or expired refresh token")]
           ELSE \E user \in ById(token.id) :
                req' = [req EXCEPT ![c] =
                    [r EXCEPT !.pc = "done", !.status = 200, !.message = "Access token refreshed",
                              !.user = user, !.accessToken = createAccessToken(user, now)]]
    /\ held' = held \cup ({req'[c].accessToken} \ {NoToken})
    /\ UNCHANGED <<uniqueCols, users, nextId, now, ticks>>

\* ------------------------------------------------------------ POST /logout
\* Lines 182-186.
Logout(c) ==
    /\ CanStart(c)
    /\ served' = served + 1
    /\ req' = [req EXCEPT ![c] =
            [Idle EXCEPT !.kind = "logout", !.at = now, !.pc = "done", !.status = 200,
                         !.message = "Logged out successfully", !.cleared = TRUE]]
    /\ UNCHANGED <<uniqueCols, users, nextId, now, ticks, held>>

\* ------------------------------------------------------------ GET /dashboard
\* Lines 188-190: the guard, then the decoded payload is echoed.
Dashboard(c, token) ==
    /\ CanStart(c)
    /\ served' = served + 1
    /\ LET r == verifyAccessToken([Idle EXCEPT !.kind = "dashboard", !.cookie = token, !.at = now],
                                  token, now)
       IN  req' = [req EXCEPT ![c] =
                IF r.status # 0 THEN r
                ELSE [r EXCEPT !.pc = "done", !.status = 200, !.message = "Welcome"]]
    /\ UNCHANGED <<uniqueCols, users, nextId, now, ticks, held>>

\* ------------------------------------------------------------ GET /verify
\* Lines 194-204: the guard, then SELECT id, name, email by the payload's id.
Verify(c, token) ==
    /\ CanStart(c)
    /\ served' = served + 1
    /\ LET r == verifyAccessToken([Idle EXCEPT !.kind = "verify", !.cookie = token, !.at = now],
                                  token, now)
       IN  IF r.status # 0 THEN req' = [req EXCEPT ![c] = r]
           ELSE IF ById(token.id) = {}
           THEN req' = [req EXCEPT ![c] = [r EXCEPT !.pc = "done", !.status = 200]]
           ELSE \E user \in ById(token.id) :
                req' = [req EXCEPT ![c] =
                    [r EXCEPT !.pc = "done", !.status = 200,
                              !.body = [NoUser EXCEPT !.id = user.id, !.name = user.name,
                                                      !.email = user.email]]]
    /\ UNCHANGED <<uniqueCols, users, nextId, now, ticks, held>>

\* ------------------------------------------------------------------ clock
Tick(d) ==
    /\ ticks < MaxTicks
    /\ ticks' = ticks + 1
    /\ now' = now + d
    /\ UNCHANGED <<uniqueCols, users, nextId, served, req, held>>

\* --------------------------------------------- changes made outside the server
\* The table is also written by others than this server: a row's name is
\* changed, a row is deleted.
AdminRename(id, name) ==
    /\ \E u \in ById(id) : u.name # name
    /\ users' = {IF u.id = id THEN [u EXCEPT !.name = name] ELSE u : u \in users}
    /\ UNCHANGED <<uniqueCols, nextId, now, ticks, served, req, held>>

AdminDelete(id) ==
    /\ ById(id) # {}
    /\ users' = users \ ById(id)
    /\ UNCHANGED <<uniqueCols, nextId, now, ticks, served, req, held>>

\* ------------------------------------------------------------ specifications
\* Account resolution: the handlers that read and write the users table, run
\* concurrently by every caller with every input.
NextAccounts ==
    \/ \E c \in Clients, n \in SignupNames, e \in Emails, p \in SignupPasswords, q \in Passwords :
            SignupStart(c, n, e, p, q)
    \/ \E c \in Clients : SignupInsert(c)
    \/ \E c \in Clients, e \in Emails, p \in Passwords : Signin(c, e, p)
    \/ \E c \in Clients, a \in Assertions : GoogleStart(c, a)
    \/ \E c \in Clients : GoogleEmail(c)
    \/ \E c \in Clients : GoogleLink(c)
    \/ \E c \in Clients : GoogleInsert(c)

SpecAccounts == Init /\ [][NextAccounts]_vars

\* Federated resolution: signup and Google sign-in, the handlers that write the
\* users table, run concurrently by every caller with every input.
NextFederated ==
    \/ \E c \in Clients, n \in SignupNames, e \in Emails, p \in SignupPasswords, q \in Passwords :
            SignupStart(c, n, e, p, q)
    \/ \E c \in Clients : SignupInsert(c)
    \/ \E c \in Clients, a \in Assertions : GoogleStart(c, a)
    \/ \E c \in Clients : GoogleEmail(c)
    \/ \E c \in Clients : GoogleLink(c)
    \/ \E c \in Clients : GoogleInsert(c)

SpecFederated == Init /\ [][NextFederated]_vars

\* Session lifetime: one caller obtains tokens for one account and presents
\* them, in either role, while the clock advances.
SessionClients == {1}
SessionEmail == "a@x.com"
SessionPassword == "pw1"
SessionAssertion == [sub |-> "g1", email |-> SessionEmail, name |-> "Alice G"]

Logins ==
    \/ \E c \in SessionClients, n \in SignupNames :
            SignupStart(c, n, SessionEmail, SessionPassword, SessionPassword)
    \/ \E c \in SessionClients : SignupInsert(c)
    \/ \E c \in SessionClients : Signin(c, SessionEmail, SessionPassword)
    \/ \E c \in SessionClients : GoogleStart(c, SessionAssertion)
    \/ \E c \in SessionClients : GoogleEmail(c)
    \/ \E c \in SessionClients : GoogleLink(c)
    \/ \E c \in SessionClients : GoogleInsert(c)

Sessions ==
    \/ \E c \in SessionClients, t \in Presentable : Refresh(c, t)
    \/ \E c \in SessionClients : Logout(c)
    \/ \E c \in SessionClients, t \in Presentable : Dashboard(c, t)
    \/ \E c \in SessionClients, t \in Presentable : Verify(c, t)
    \/ \E d \in TickSteps : Tick(d)

Admin ==
    \/ \E id \in 1..(nextId - 1), n \in NewNames : AdminRename(id, n)
    \/ \E id \in 1..(nextId - 1) : AdminDelete(id)

NextSessions == Logins \/ Sessions

SpecSessions == Init /\ [][NextSessions]_vars

\* The same session while the table is also written from outside the server.
NextOOB ==
    \/ \E c \in SessionClients, n \in SignupNames :
            SignupStart(c, n, SessionEmail, SessionPassword, SessionPassword)
    \/ \E c \in SessionClients : SignupInsert(c)
    \/ \E c \in SessionClients, t \in Presentable : Refresh(c, t)
    \/ \E d \in TickSteps : Tick(d)
    \/ Admin

SpecOOB == Init /\ [][NextOOB]_vars

\* Logout: two callers of one account sign up, log out and refresh while the
\* clock advances.
LogoutClients == {1, 2}

NextLogout ==
    \/ \E c \in LogoutClients, n \in SignupNames :
            SignupStart(c, n, SessionEmail, SessionPassword, SessionPassword)
    \/ \E c \in LogoutClients : SignupInsert(c)
    \/ \E c \in LogoutClients : Logout(c)
    \/ \E c \in LogoutClients, t \in Presentable : Refresh(c, t)
    \/ \E d \in TickSteps : Tick(d)

SpecLogout == Init /\ [][NextLogout]_vars

\* ------------------------------------------------- a deployment without REFRESH_TOKEN_SECRET
\* jwt.sign throws when its secret is unset.  With REFRESH_TOKEN_SECRET unset
\* createAccessToken (line 75, 150) succeeds and createRefreshToken (line 76,
\* 151) throws, after the handler's INSERT or UPDATE has been issued; the
\* handler's catch answers.
SignupInsertMintThrows(c) ==
    /\ req[c].pc = "signup_insert"
    /\ LET r == req[c]
           row == [id |-> nextId, name |-> r.name, email |-> r.email,
                   password_hash |-> bcryptHash(r.password), google_id |-> NULL]
       IN  IF "email" \in uniqueCols /\ ByEmail(r.email) # {}
           THEN /\ req' = [req EXCEPT ![c] = Fail(r, 500, "Server error")]
                /\ UNCHANGED <<users, nextId>>
           ELSE /\ users' = users \cup {row}
                /\ nextId' = nextId + 1
                /\ req' = [req EXCEPT ![c] =
                        Fail([r EXCEPT !.user = row, !.branch = "create"], 500, "Server error")]
    /\ UNCHANGED <<uniqueCols, now, ticks, served, held>>

GoogleStartMintThrows(c, assertion) ==
    /\ CanStart(c)
    /\ served' = served + 1
    /\ LET r == [Idle EXCEPT !.kind = "google", !.sub = assertion.sub, !.email = assertion.email,
                             !.name = assertion.name, !.at = now]
       IN  IF verifyIdTokenThrows(assertion)
           THEN req' = [req EXCEPT ![c] = Fail(r, 401, "Google authentication failed")]
           ELSE IF ByGoogleId(assertion.sub) = {}
           THEN req' = [req EXCEPT ![c] = [r EXCEPT !.pc = "google_email"]]
           ELSE \E user \in ByGoogleId(assertion.sub) :
                req' = [req EXCEPT ![c] =
                    Fail([r EXCEPT !.user = user, !.branch = "existing"], 401,
                         "Google authentication failed")]
    /\ UNCHANGED <<uniqueCols, users, nextId, now, ticks, held>>

GoogleLinkMintThrows(c) ==
    /\ req[c].pc = "google_link"
    /\ LET r == req[c]
       IN  IF "google_id" \in uniqueCols /\ \E u \in ByGoogleId(r.sub) : u.id # r.user.id
           THEN /\ req' = [req EXCEPT ![c] = Fail(r, 401, "Google authentication failed")]
                /\ UNCHANGED users
           ELSE /\ users' = {IF u.id = r.user.id THEN [u EXCEPT !.google_id = r.sub] ELSE u : u \in users}
                /\ req' = [req EXCEPT ![c] =
                        Fail([r EXCEPT !.branch = "link"], 401, "Google authentication failed")]
    /\ UNCHANGED <<uniqueCols, nextId, now, ticks, served, held>>

GoogleInsertMintThrows(c) ==
    /\ req[c].pc = "google_insert"
    /\ LET r == req[c]
           row == [id |-> nextId, name |-> r.name, email |-> r.email,
                   password_hash |-> NoHash, google_id |-> r.sub]
       IN  IF \/ "email" \in uniqueCols /\ ByEmail(r.email) # {}
              \/ "google_id" \in uniqueCols /\ ByGoogleId(r.sub) # {}
           THEN /\ req' = [req EXCEPT ![c] = Fail(r, 401, "Google authentication failed")]
                /\ UNCHANGED <<users, nextId>>
           ELSE /\ users' = users \cup {row}
                /\ nextId' = nextId + 1
                /\ req' = [req EXCEPT ![c] =
                        Fail([r EXCEPT !.user = row, !.branch = "create"], 401,
                             "Google authentication failed")]
    /\ UNCHANGED <<uniqueCols, now, ticks, served, held>>

NextMintFault ==
    \/ \E c \in Clients, n \in SignupNames, e \in Emails, p \in SignupPasswords, q \in Passwords :
            SignupStart(c, n, e, p, q)
    \/ \E c \in Clients : SignupInsertMintThrows(c)
    \/ \E c \in Clients, a \in Assertions : GoogleStartMintThrows(c, a)
    \/ \E c \in Clients : GoogleEmail(c)
    \/ \E c \in Clients : GoogleLinkMintThrows(c)
    \/ \E c \in Clients : GoogleInsertMintThrows(c)

SpecMintFault == Init /\ [][NextMintFault]_vars

\* ------------------------------------------------- the database is unreachable
\* pool.query rejects when the database cannot be reached; each handler's
\* catch answers.  In /api/auth/google the first query follows a successful
\* verifyIdToken, in /refresh_token a successful jwt.verify.
SigninQueryFails(c, email, password) ==
    /\ CanStart(c)
    /\ served' = served + 1
    /\ req' = [req EXCEPT ![c] =
            Fail([SigninRequest(email, password) EXCEPT !.branch = "query_failed"],
                 500, "Server error")]
    /\ UNCHANGED <<uniqueCols, users, nextId, now, ticks, held>>

GoogleQueryFails(c, assertion) ==
    /\ CanStart(c)
    /\ assertion # InvalidAssertion
    /\ served' = served + 1
    /\ req' = [req EXCEPT ![c] =
            Fail([Idle EXCEPT !.kind = "google", !.sub = assertion.sub, !.email = assertion.email,
                              !.name = assertion.name, !.at = now, !.branch = "query_failed"],
                 401, "Google authentication failed")]
    /\ UNCHANGED <<uniqueCols, users, nextId, now, ticks, held>>

RefreshQueryFails(c, token) ==
    /\ CanStart(c)
    /\ token # NoToken
    /\ jwtVerify(token, REFRESH_TOKEN_SECRET, now)
    /\ served' = served + 1
    /\ req' = [req EXCEPT ![c] =
            Fail([Idle EXCEPT !.kind = "refresh", !.cookie = token, !.at = now,
                              !.branch = "query_failed"],
                 401, "Invalid or expired refresh token")]
    /\ UNCHANGED <<uniqueCols, users, nextId, now, ticks, held>>

DbFaultAssertions == {SessionAssertion, InvalidAssertion}

NextDbFault ==
    \/ \E c \in Clients, n \in SignupNames :
            SignupStart(c, n, SessionEmail, SessionPassword, SessionPassword)
    \/ \E c \in Clients : SignupInsert(c)
    \/ \E c \in Clients, p \in Passwords : Signin(c, SessionEmail, p)
    \/ \E c \in Clients, a \in DbFaultAssertions : GoogleStart(c, a)
    \/ \E c \in Clients : GoogleEmail(c)
    \/ \E c \in Clients : GoogleLink(c)
    \/ \E c \in Clients : GoogleInsert(c)
    \/ \E c \in Clients, t \in Presentable : Refresh(c, t)
    \/ \E c \in Clients, p \in Passwords : SigninQueryFails(c, SessionEmail, p)
    \/ \E c \in Clients, a \in DbFaultAssertions : GoogleQueryFails(c, a)
    \/ \E c \in Clients, t \in Presentable : RefreshQueryFails(c, t)

SpecDbFault == Init /\ [][NextDbFault]_vars

\* ------------------------------------------------------------------ claims
Done(r, kinds) == r.kind \in kinds /\ r.pc = "done"

\* What createRefreshToken / createAccessToken produce for the token's own
\* payload and mint time: the token was minted by that helper.
MintedByRefresh(t) == t # NoToken /\ t = createRefreshToken(t, t.iat)
MintedByAccess(t) == t # NoToken /\ t.email # Undefined /\ t = createAccessToken(t, t.iat)

\* C1: in every reachable state the users table holds at most one row per
\* email address, whatever the interleaving of signups and Google sign-ins.
C1_OneRecordPerEmail ==
    \A u \in users, v \in users : u.email = v.email => u = v

\* C2: a token minted by createRefreshToken is rejected by the access guard,
\* and a token minted by createAccessToken is rejected by /refresh_token,
\* also while unexpired and for an account that exists.
C2_DomainSeparation ==
    \A c \in Clients :
        /\ (Done(req[c], {"dashboard", "verify"}) /\ MintedByRefresh(req[c].cookie))
                => (req[c].status = 401 /\ req[c].claim = NoToken)
        /\ (Done(req[c], {"refresh"}) /\ MintedByAccess(req[c].cookie))
                => (req[c].status = 401 /\ req[c].accessToken = NoToken)

C2_Witness ==
    \E c \in Clients :
        /\ Done(req[c], {"dashboard"})
        /\ MintedByRefresh(req[c].cookie)
        /\ req[c].at < req[c].cookie.exp
        /\ ById(req[c].cookie.id) # {}
        /\ req[c].status = 401

\* C3: the guard accepts an access token minted from an account's identity
\* and yields that identity (id, email, name) at every time strictly before
\* mint time + 15 minutes, and answers "Invalid or expired token" at every
\* time from mint time + 15 minutes on, the boundary included.
C3_AccessRoundTrip ==
    \A c \in Clients :
        (Done(req[c], {"dashboard"}) /\ MintedByAccess(req[c].cookie)) =>
            IF req[c].at < req[c].cookie.iat + AccessTTL
            THEN /\ req[c].status = 200
                 /\ \E u \in users :
                        /\ req[c].claim.id = u.id
                        /\ req[c].claim.email = u.email
                        /\ req[c].claim.name = u.name
            ELSE /\ req[c].status = 401
                 /\ req[c].message = "Invalid or expired token"
                 /\ req[c].claim = NoToken

C3_Witness ==
    \E c \in Clients :
        /\ Done(req[c], {"dashboard"})
        /\ MintedByAccess(req[c].cookie)
        /\ req[c].at = req[c].cookie.iat + AccessTTL
        /\ req[c].status = 401

\* C4: a signin for an email without an account and a signin with a wrong
\* password for an email with an account (with a password hash or without
\* one) are answered with the same status and message.
C4_EnumerationResistance ==
    \A c \in Clients, d \in Clients :
        ( /\ Done(req[c], {"signin"}) /\ req[c].user = NoUser
          /\ Done(req[d], {"signin"}) /\ req[d].user # NoUser
          /\ req[d].user.password_hash # bcryptHash(req[d].password) )
        => (req[c].status = req[d].status /\ req[c].message = req[d].message)

\* C5: a refresh with a valid refresh token of an existing account succeeds,
\* and the access token it issues carries the name and email the account's
\* row has at the time of the refresh, also when the name was changed after
\* the refresh token was minted.
C5_RefreshFreshness ==
    [][\A c \in Clients :
        ( /\ served' = served + 1
          /\ req'[c].kind = "refresh" /\ req'[c] # req[c]
          /\ MintedByRefresh(req'[c].cookie)
          /\ now < req'[c].cookie.exp
          /\ \E u \in users : u.id = req'[c].cookie.id )
        => /\ req'[c].status = 200
           /\ \E u \in users :
                /\ u.id = req'[c].cookie.id
                /\ req'[c].accessToken.id = u.id
                /\ req'[c].accessToken.name = u.name
                /\ req'[c].accessToken.email = u.email
                /\ req'[c].accessToken.iat = now]_vars

C5_Witness ==
    \E c \in Clients :
        /\ Done(req[c], {"refresh"})
        /\ req[c].status = 200
        /\ req[c].accessToken.name \in NewNames
        /\ MintedByRefresh(req[c].cookie)

\* C6: a refresh with a validly signed, unexpired refresh token whose account
\* row no longer exists is answered differently from a refresh with a bad or
\* expired token, and issues no access token.
C6_AccountNotFoundDistinct ==
    \A c \in Clients :
        ( /\ Done(req[c], {"refresh"})
          /\ jwtVerify(req[c].cookie, REFRESH_TOKEN_SECRET, req[c].at)
          /\ req[c].user = NoUser )
        => /\ req[c].accessToken = NoToken
           /\ req[c].status # 200
           /\ <<req[c].status, req[c].message>> # <<401, "Invalid or expired refresh token">>

\* C7: a signup (password equal to confirm) whose email has a row in the
\* table when the handler answers is answered "Email already registered" and
\* leaves the table as it was, also when the row was inserted by a concurrent
\* request after the signup's own SELECT.
C7_SignupEmailTaken ==
    [][\A c \in Clients :
        ( /\ req'[c] # req[c]
          /\ req'[c].kind = "signup" /\ req'[c].pc = "done"
          /\ req'[c].password = req'[c].confirm
          /\ \E u \in users : u.email = req'[c].email )
        => /\ req'[c].status = 400
           /\ req'[c].message = "Email already registered"
           /\ users' = users]_vars

\* C8: after a Google sign-in has linked an external identity to the
\* password-based account of its email, a following Google sign-in with the
\* same identity is answered with the same account id, leaves the table
\* unchanged and adds no row.
C8_LinkIdempotent ==
    [][\A c \in Clients, d \in Clients :
        ( /\ Done(req[c], {"google"}) /\ req[c].branch = "link" /\ req[c].status = 200
          /\ {u \in users : u.google_id = req[c].sub} = {u \in users : u.id = req[c].body.id}
          /\ \E u \in users : u.id = req[c].body.id /\ u.email = req[c].email
          /\ served' = served + 1
          /\ req'[d] # req[d]
          /\ req'[d].kind = "google" /\ req'[d].sub = req[c].sub /\ req'[d].email = req[c].email )
        => /\ req'[d].pc = "done"
           /\ req'[d].status = 200
           /\ req'[d].body.id = req[c].body.id
           /\ users' = users
           /\ Cardinality(users') = Cardinality(users)]_vars

C8_Witness ==
    \E c \in Clients, d \in Clients :
        /\ c # d
        /\ Done(req[c], {"google"}) /\ req[c].branch = "link" /\ req[c].status = 200
        /\ Done(req[d], {"google"}) /\ req[d].branch = "existing" /\ req[d].status = 200
        /\ req[d].sub = req[c].sub /\ req[d].email = req[c].email
        /\ req[d].body.id = req[c].body.id
        /\ req[d].user.password_hash # NoHash

\* C9: a signup with password equal to confirm and an email that has no row
\* in the table succeeds, and a signin with the same email and password made
\* right after it succeeds with an access token that the guard accepts and
\* whose email is the signup's email.
C9_SignupThenSignin ==
    [][\A c \in Clients :
        /\ ( /\ served' = served + 1 /\ req'[c] # req[c]
             /\ req'[c].kind = "signup"
             /\ req'[c].password = req'[c].confirm
             /\ ~ \E u \in users : u.email = req'[c].email )
           => req'[c].pc = "signup_insert"
        /\ ( /\ req[c].pc = "signup_insert" /\ req'[c].pc = "done"
             /\ ~ \E u \in users : u.email = req[c].email )
           => /\ req'[c].status = 200
              /\ \E u \in users' : u.email = req[c].email /\ u.id = req'[c].body.id
              /\ \A o \in SigninOutcomes(SigninRequest(req[c].email, req[c].password))' :
                    /\ o.status = 200
                    /\ GuardMessage(o.accessToken, now') = ""
                    /\ o.accessToken.email = req[c].email]_vars

C9_Witness ==
    \E c \in Clients, d \in Clients :
        /\ Done(req[c], {"signup"}) /\ req[c].status = 200
        /\ Done(req[d], {"signin"}) /\ req[d].status = 200
        /\ req[d].email = req[c].email /\ req[d].password = req[c].password
        /\ req[d].accessToken.email = req[c].email
        /\ GuardMessage(req[d].accessToken, now) = ""

\* C10: the guard answers a request without an access token and a request
\* with a forged or expired access token with the same status and message.
C10_GuardOneSignal ==
    \A c \in Clients :
        ( /\ Done(req[c], {"dashboard", "verify"})
          /\ req[c].cookie # NoToken
          /\ req[c].status = 401 )
        => /\ req[c].status = verifyAccessToken(Idle, NoToken, req[c].at).status
           /\ req[c].message = verifyAccessToken(Idle, NoToken, req[c].at).message


\* C11: logout changes nothing on the server, and a refresh token minted
\* before a logout is accepted by /refresh_token after it at every time before
\* mint time + 7 days, with an access token the guard accepts.
C11_StatelessLogout ==
    [][\A c \in Clients :
        /\ ( req'[c].kind = "logout" /\ served' = served + 1 /\ req'[c] # req[c] )
           => ( users' = users /\ held' = held /\ req'[c].status = 200 )
        /\ \A d \in Clients :
            ( /\ Done(req[c], {"logout"})
              /\ served' = served + 1 /\ req'[d] # req[d]
              /\ req'[d].kind = "refresh"
              /\ MintedByRefresh(req'[d].cookie)
              /\ req'[d].cookie.iat <= req[c].at
              /\ now < req'[d].cookie.iat + RefreshTTL
              /\ \E u \in users : u.id = req'[d].cookie.id )
            => /\ req'[d].status = 200
               /\ GuardMessage(req'[d].accessToken, now) = ""]_vars

C11_Witness ==
    \E c \in Clients, d \in Clients :
        /\ Done(req[c], {"logout"})
        /\ Done(req[d], {"refresh"})
        /\ MintedByRefresh(req[d].cookie)
        /\ req[d].cookie.iat < req[c].at
        /\ req[c].at < req[d].at
        /\ req[d].at >= req[d].cookie.iat + AccessTTL
        /\ req[d].status = 200
        /\ GuardMessage(req[d].accessToken, req[d].at) = ""


\* C12: Google sign-in decides in the order google_id match, email match,
\* create.  When a row holds the identity's google_id the handler answers with
\* such a row and writes nothing, also when another row holds the identity's
\* email; it goes on to the email lookup only when no row holds the google_id,
\* links only a row found by email, and inserts only when neither lookup
\* found a row.
C12_ResolutionOrder ==
    [][\A c \in Clients :
        /\ ( /\ served' = served + 1 /\ req'[c] # req[c]
             /\ req'[c].kind = "google" /\ req'[c].sub # NULL )
           => IF \E u \in users : u.google_id = req'[c].sub
              THEN /\ req'[c].pc = "done" /\ req'[c].status = 200
                   /\ \E u \in users : u.google_id = req'[c].sub /\ u.id = req'[c].body.id
                   /\ users' = users
              ELSE req'[c].pc = "google_email" /\ users' = users
        /\ ( req[c].pc = "google_email" /\ req'[c] # req[c] )
           => /\ users' = users
              /\ IF \E u \in users : u.email = req[c].email
                 THEN /\ req'[c].pc = "google_link"
                      /\ req'[c].user \in users /\ req'[c].user.email = req[c].email
                 ELSE req'[c].pc = "google_insert"
        /\ ( req[c].pc = "google_link" /\ req'[c] # req[c] /\ req'[c].status = 200 )
           => /\ req'[c].body.id = req[c].user.id
              /\ Cardinality(users') = Cardinality(users)
              /\ \A u \in users : u.id # req[c].user.id => u \in users'
        /\ ( req[c].pc = "google_insert" /\ req'[c] # req[c] /\ req'[c].status = 200 )
           => /\ users \subseteq users'
              /\ Cardinality(users') = Cardinality(users) + 1
              /\ req'[c].body.id = nextId]_vars

C12_Witness ==
    \E c \in Clients :
        /\ Done(req[c], {"google"}) /\ req[c].branch = "existing" /\ req[c].status = 200
        /\ req[c].user.google_id = req[c].sub
        /\ req[c].user.email # req[c].email
        /\ \E u \in users : u.email = req[c].email /\ u.id # req[c].body.id /\ u.google_id = NULL


\* C13: a Google sign-in whose INSERT the store rejects, because a concurrent
\* sign-in has inserted the same email under a UNIQUE constraint, ends in
\* success with a token pair for the one account of that email, and not in
\* "Google authentication failed".
C13_InsertConflictRetried ==
    [][\A c \in Clients :
        ( /\ req[c].pc = "google_insert" /\ req'[c].pc = "done"
          /\ "email" \in uniqueCols
          /\ \E u \in users : u.email = req[c].email )
        => /\ req'[c].status = 200
           /\ req'[c].accessToken # NoToken /\ req'[c].refreshToken # NoToken
           /\ \A u \in users' : u.email = req[c].email => u.id = req'[c].body.id]_vars

\* C14: in every reachable state no two rows of users hold the same non-null
\* google_id.
C14_UniqueGoogleId ==
    \A u \in users, v \in users :
        (u.google_id # NULL /\ u.google_id = v.google_id) => u = v


\* C15: /refresh_token issues an access token and never a refresh token, and
\* from mint time + 7 days on every refresh with a refresh token is answered
\* 401 without an access token, so the refresh tokens in circulation are only
\* those issued by a signup, signin or Google sign-in.
C15_LineageEnds ==
    [][\A c \in Clients :
        ( served' = served + 1 /\ req'[c] # req[c] /\ req'[c].kind = "refresh" )
        => /\ req'[c].refreshToken = NoToken
           /\ \A t \in held' \ held : t = req'[c].accessToken /\ MintedByAccess(t)
           /\ ( MintedByRefresh(req'[c].cookie) /\ now >= req'[c].cookie.iat + RefreshTTL )
              => /\ req'[c].status = 401
                 /\ req'[c].accessToken = NoToken
                 /\ held' = held]_vars

C15_Witness ==
    \E c \in Clients :
        /\ Done(req[c], {"refresh"})
        /\ MintedByRefresh(req[c].cookie)
        /\ req[c].at = req[c].cookie.iat + RefreshTTL
        /\ req[c].status = 401
        /\ \E u \in users : u.id = req[c].cookie.id


\* C16: a signup or Google sign-in that is answered with a failure has written
\* nothing: the step that ends it in failure leaves the users table as it was,
\* also when the failure is a throw of token minting after the INSERT or
\* UPDATE was issued.
C16_NoPartialState ==
    [][\A c \in Clients :
        ( /\ req'[c] # req[c]
          /\ req'[c].kind \in {"signup", "google"}
          /\ req'[c].pc = "done"
          /\ req'[c].status # 200 )
        => users' = users]_vars


\* C17: a signin, Google sign-in or refresh that fails because a query to the
\* database fails is answered differently (status or message) from a request
\* to the same route that fails on bad credentials, a bad or expired token or
\* a failed verification of the Google token.
C17_DependencyErrorDistinct ==
    \A c \in Clients, d \in Clients :
        ( /\ Done(req[c], {"signin", "google", "refresh"})
          /\ req[c].branch = "query_failed"
          /\ Done(req[d], {req[c].kind})
          /\ req[d].branch # "query_failed"
          /\ req[d].status # 200 )
        => <<req[c].status, req[c].message>> # <<req[d].status, req[d].message>>


\* C18: when the verification of the Google token fails, the sign-in is
\* answered 401 "Google authentication failed" in that same step, without a
\* lookup, link or insert (the users table is unchanged) and without a token.
C18_VerificationFailure ==
    [][\A c \in Clients :
        ( /\ served' = served + 1 /\ req'[c] # req[c]
          /\ req'[c].kind = "google"
          /\ req'[c].sub = InvalidAssertion.sub )
        => /\ req'[c].pc = "done"
           /\ req'[c].status = 401
           /\ req'[c].message = "Google authentication failed"
           /\ req'[c].user = NoUser /\ req'[c].branch = ""
           /\ req'[c].accessToken = NoToken /\ req'[c].refreshToken = NoToken
           /\ users' = users /\ nextId' = nextId /\ held' = held]_vars

C18_Witness ==
    \E c \in Clients :
        /\ Done(req[c], {"google"})
        /\ req[c].sub = InvalidAssertion.sub
        /\ req[c].status = 401
        /\ \E u \in users : u.google_id = NULL


\* C19: a signin that reads a row without password_hash is never answered
\* with a token pair, whatever the password; the answered requests that carry
\* a token for such an account are Google sign-ins and refreshes.
C19_NoSigninForFederatedOnly ==
    \A c \in Clients :
        /\ ( /\ Done(req[c], {"signin"})
             /\ req[c].user # NoUser /\ req[c].user.password_hash = NoHash )
           => /\ req[c].status # 200
              /\ req[c].accessToken = NoToken /\ req[c].refreshToken = NoToken
        /\ ( /\ req[c].pc = "done"
             /\ req[c].accessToken # NoToken
             /\ \E u \in users : u.id = req[c].accessToken.id /\ u.password_hash = NoHash )
           => req[c].kind \in {"google", "refresh"}

C19_Witness ==
    \E c \in Clients :
        /\ Done(req[c], {"signin"})
        /\ req[c].user # NoUser /\ req[c].user.password_hash = NoHash
        /\ req[c].user \in users
        /\ req[c].status # 200

\* C20: a Google sign-in never changes a row's non-null google_id: once a row
\* holds an external id it keeps that external id.
C20_LinkNeverReplaced ==
    [][\A u \in users : u.google_id # NULL =>
            \A v \in users' : v.id = u.id => v.google_id = u.google_id]_vars

====
